---- MODULE Spec2Model ----
(***************************************************************************)
(* Model of lib/ansible/modules/system/alternatives.py: one invocation of  *)
(* the module probes the alternatives database with `--display` (and       *)
(* `--query`), then installs/selects or removes one path of one link       *)
(* group.  The database behind update-alternatives is the environment; the *)
(* module's own steps are the actions.                                     *)
(***************************************************************************)
EXTENDS Integers, Sequences, FiniteSets, TLC

\* ---------------------------------------------------------------- bounds
NumPaths == 2
NumLinks == 2

\* ------------------------------------------------------------- constants
DefaultPriority == 50

None == 0                       \* Python None (no path / no link)
Paths == 1..NumPaths            \* absolute paths of executables
Links == 1..NumLinks            \* absolute paths of symbolic links
Priorities == {DefaultPriority, -10}
States == {"present", "absent"}
Name == "editor"                \* the link group every invocation names

VARIABLES
    bin_path,           \* update-alternatives is installed (get_bin_path)
    oracle,             \* the alternatives database of the group
    pc,                 \* position of the running invocation
    params,             \* module.params and module.check_mode
    current_path,       \* get_current: current_path
    all_alternatives,   \* get_current: all_alternatives (a list)
    link,               \* the local `link` of main() after get_current
    cmds,               \* run_command calls of this invocation, in order
    result,             \* exit_json / fail_json / traceback of this invocation
    oracle0,            \* the database when the invocation started
    prev                \* summary of the invocation that ran just before

vars == <<bin_path, oracle, pc, params, current_path, all_alternatives,
          link, cmds, result, oracle0, prev>>

\* ------------------------------------------------- the database (oracle)
Unregistered == [alts |-> {}, current |-> None, link |-> None]

\* A registered group has candidates and a link; its link either points to
\* one of the candidates or is absent ("link currently absent").
OracleStates ==
    {Unregistered} \cup
    { [alts |-> A, current |-> c, link |-> l] :
        A \in (SUBSET Paths) \ {{}}, c \in Paths \cup {None}, l \in Links }

OracleOk(o) ==
    /\ o \in OracleStates
    /\ o.alts # {} => o.current \in o.alts \cup {None}

\* `--install <link> <name> <path> <priority>`: registers the candidate; a
\* new group points at it, a group in automatic mode may switch to it.
OracleInstall(o, l, p, switch) ==
    [alts |-> o.alts \cup {p},
     current |-> IF o.alts = {} \/ switch THEN p ELSE o.current,
     link |-> l]

\* `--set <name> <path>`: selects a registered candidate.
OracleSet(o, p) == [o EXCEPT !.current = p]

\* `--remove <name> <path>`: deregisters the candidate; the group falls back
\* to another candidate, and disappears with its last one.
OracleRemove(o, p, fallback) ==
    IF o.alts \ {p} = {} THEN Unregistered
    ELSE [o EXCEPT !.alts = o.alts \ {p},
                   !.current = IF o.current = p THEN fallback ELSE o.current]

\* --------------------------------------------- reports of the oracle
RECURSIVE AltLines(_, _)
AltLines(A, p) ==
    IF p > NumPaths THEN <<>>
    ELSE (IF p \in A
          THEN <<[kind |-> "alt", val |-> p], [kind |-> "slave", val |-> p]>>
          ELSE <<>>) \o AltLines(A, p + 1)

\* the candidate the automatic mode would pick (stands for the best priority)
BestOf(A) == CHOOSE x \in A : \A y \in A : y <= x

\* `--display <name>`: status line, "link best version is", "link currently
\* points to" (or "link currently absent"), then the candidates with their
\* slave lines.  Nothing on stdout for a group that is not registered.
DisplayOutput(o) ==
    IF o.alts = {} THEN <<>>
    ELSE <<[kind |-> "status", val |-> None],
           [kind |-> "best", val |-> BestOf(o.alts)]>>
         \o (IF o.current # None
             THEN <<[kind |-> "current", val |-> o.current]>>
             ELSE <<[kind |-> "absent", val |-> None]>>)
         \o AltLines(o.alts, 1)

\* `--query <name>`: Name:, Link:, Status: ... ; hasLink is FALSE for a
\* report without a Link: line.
QueryOutput(o, hasLink) ==
    <<[kind |-> "Name:", val |-> None]>>
    \o (IF hasLink THEN <<[kind |-> "Link:", val |-> o.link]>> ELSE <<>>)
    \o <<[kind |-> "Status:", val |-> None]>>

\* --------------------------------------------- parsing in get_current
\* current_path_regex.search(display_output): index of the first match, 0
\* when there is none (search() returns None).
RECURSIVE SearchKind(_, _, _)
SearchKind(out, kind, i) ==
    IF i > Len(out) THEN 0
    ELSE IF out[i].kind = kind THEN i
    ELSE SearchKind(out, kind, i + 1)

\* the regular expression matches "link best version is" instead
CurrentPathSearch_best(out) == SearchKind(out, "best", 1)

\* current_path_regex.search(display_output), lines 121-125
CurrentPathSearch(out) == SearchKind(out, "current", 1)

\* alternative_regex.findall(display_output)
RECURSIVE FindallAlt(_)
FindallAlt(out) ==
    IF out = <<>> THEN <<>>
    ELSE (IF Head(out).kind = "alt" THEN <<Head(out).val>> ELSE <<>>)
         \o FindallAlt(Tail(out))

\* the loop over query_output.splitlines()
ParseLink(out) ==
    LET i == SearchKind(out, "Link:", 1)
    IN IF i = 0 THEN None ELSE out[i].val

\* `x in all_alternatives` on a Python list
InList(x, s) == \E i \in 1..Len(s) : s[i] = x

\* --------------------------------------------------------------- helpers
\* one run_command call: the arguments, the exit status and, for --query,
\* the link its report named (`out`)
Cmd(op, rc, l, p, prio) ==
    [op |-> op, rc |-> rc, name |-> Name, link |-> l, path |-> p,
     priority |-> prio, out |-> None]

IsMutating(c) == c.op \in {"install", "set", "remove"}
MutCmds(s) == SelectSeq(s, IsMutating)

Pending == [kind |-> "pending", changed |-> FALSE, msg |-> ""]
ExitJson(changed) == [kind |-> "exit", changed |-> changed, msg |-> ""]
FailJson(msg) == [kind |-> "fail", changed |-> FALSE, msg |-> msg]
Traceback(msg) == [kind |-> "exception", changed |-> FALSE, msg |-> msg]

NoParams == [state |-> "present", path |-> None, link |-> None,
             priority |-> DefaultPriority, check_mode |-> FALSE]

\* what is remembered of the invocation that ran just before this one
NoPrev == [valid |-> FALSE, state |-> "present", path |-> None,
           check_mode |-> FALSE, result |-> Pending]

Summary == [valid |-> TRUE, state |-> params.state, path |-> params.path,
            check_mode |-> params.check_mode, result |-> result]

\* ------------------------------------------------------------------ Init
Init ==
    /\ bin_path \in BOOLEAN
    /\ oracle \in {o \in OracleStates : OracleOk(o)}
    /\ pc = "main"
    /\ params = NoParams
    /\ current_path = None
    /\ all_alternatives = <<>>
    /\ link = None
    /\ cmds = <<>>
    /\ result = Pending
    /\ oracle0 = oracle
    /\ prev = NoPrev

\* --------------------------------------------------------------- actions
\* main(), lines 192-215: a new invocation reads its parameters and looks
\* for the update-alternatives binary.
Main ==
    /\ pc \in {"main", "done"}
    /\ \E st \in States, p \in Paths, l \in Links \cup {None},
          prio \in Priorities, cm \in BOOLEAN :
          params' = [state |-> st, path |-> p, link |-> l,
                     priority |-> prio, check_mode |-> cm]
    /\ prev' = IF pc = "done" THEN Summary ELSE prev
    /\ current_path' = None
    /\ all_alternatives' = <<>>
    /\ link' = params'.link
    /\ cmds' = <<>>
    /\ oracle0' = oracle
    /\ IF bin_path
       THEN pc' = "display" /\ result' = Pending
       ELSE pc' = "done" /\ result' = FailJson("bin_not_found")
    /\ UNCHANGED <<bin_path, oracle>>

\* the test `if not link` is dropped: --query is run after every successful
\* --display
GetCurrentDisplay_alwaysQuery ==
    /\ pc = "display"
    /\ LET rc == IF oracle.alts # {} THEN 0 ELSE 2
           out == DisplayOutput(oracle)
           m == CurrentPathSearch(out)
       IN /\ cmds' = Append(cmds, Cmd("display", rc, None, None, None))
          /\ IF rc = 0
             THEN IF m = 0
                  THEN /\ pc' = "done"
                       /\ result' = Traceback("parse_error")
                       /\ UNCHANGED <<current_path, all_alternatives>>
                  ELSE /\ current_path' = out[m].val
                       /\ all_alternatives' = FindallAlt(out)
                       /\ pc' = "query"
                       /\ UNCHANGED result
             ELSE /\ pc' = "dispatch"
                  /\ UNCHANGED <<current_path, all_alternatives, result>>
    /\ UNCHANGED <<bin_path, oracle, params, link, oracle0, prev>>

\* a report without the "currently points to" line is read as "no current
\* path" and the invocation goes on
GetCurrentDisplay_default ==
    /\ pc = "display"
    /\ LET rc == IF oracle.alts # {} THEN 0 ELSE 2
           out == DisplayOutput(oracle)
           m == CurrentPathSearch(out)
       IN /\ cmds' = Append(cmds, Cmd("display", rc, None, None, None))
          /\ IF rc = 0
             THEN /\ current_path' = IF m = 0 THEN None ELSE out[m].val
                  /\ all_alternatives' = FindallAlt(out)
                  /\ pc' = IF link = None THEN "query" ELSE "dispatch"
                  /\ UNCHANGED result
             ELSE /\ pc' = "dispatch"
                  /\ UNCHANGED <<current_path, all_alternatives, result>>
    /\ UNCHANGED <<bin_path, oracle, params, link, oracle0, prev>>

\* --display run with check_rc=True: a group that is not registered is fatal
GetCurrentDisplay_fatal ==
    /\ pc = "display"
    /\ LET rc == IF oracle.alts # {} THEN 0 ELSE 2
           out == DisplayOutput(oracle)
           m == CurrentPathSearch(out)
       IN /\ cmds' = Append(cmds, Cmd("display", rc, None, None, None))
          /\ IF rc = 0
             THEN IF m = 0
                  THEN /\ pc' = "done"
                       /\ result' = Traceback("parse_error")
                       /\ UNCHANGED <<current_path, all_alternatives>>
                  ELSE /\ current_path' = out[m].val
                       /\ all_alternatives' = FindallAlt(out)
                       /\ pc' = IF link = None THEN "query" ELSE "dispatch"
                       /\ UNCHANGED result
             ELSE /\ pc' = "done"
                  /\ result' = FailJson("command_failed")
                  /\ UNCHANGED <<current_path, all_alternatives>>
    /\ UNCHANGED <<bin_path, oracle, params, link, oracle0, prev>>

\* get_current(), lines 109-126: run --display and parse its report.
GetCurrentDisplay ==
    /\ pc = "display"
    /\ LET rc == IF oracle.alts # {} THEN 0 ELSE 2
           out == DisplayOutput(oracle)
           m == CurrentPathSearch(out)
       IN /\ cmds' = Append(cmds, Cmd("display", rc, None, None, None))
          /\ IF rc = 0
             THEN IF m = 0
                  THEN \* search() is None: AttributeError on .group(1)
                       /\ pc' = "done"
                       /\ result' = Traceback("parse_error")
                       /\ UNCHANGED <<current_path, all_alternatives>>
                  ELSE /\ current_path' = out[m].val
                       /\ all_alternatives' = FindallAlt(out)
                       /\ pc' = IF link = None THEN "query" ELSE "dispatch"
                       /\ UNCHANGED result
             ELSE /\ pc' = "dispatch"
                  /\ UNCHANGED <<current_path, all_alternatives, result>>
    /\ UNCHANGED <<bin_path, oracle, params, link, oracle0, prev>>

\* --query run with check_rc=True: an oracle without --query is fatal
GetCurrentQuery_checkRc ==
    /\ pc = "query"
    /\ \E rc \in {0, 2}, hasLink \in BOOLEAN :
          /\ cmds' = Append(cmds,
                [Cmd("query", rc, None, None, None) EXCEPT
                    !.out = IF rc = 0 /\ hasLink THEN oracle.link ELSE None])
          /\ link' = IF rc = 0 THEN ParseLink(QueryOutput(oracle, hasLink))
                     ELSE link
          /\ IF rc = 0
             THEN pc' = "dispatch" /\ UNCHANGED result
             ELSE pc' = "done" /\ result' = FailJson("command_failed")
    /\ UNCHANGED <<bin_path, oracle, params, current_path, all_alternatives,
                   oracle0, prev>>

\* get_current(), lines 128-143: no link given, ask --query for it.
GetCurrentQuery ==
    /\ pc = "query"
    /\ \E rc \in {0, 2}, hasLink \in BOOLEAN :
          /\ cmds' = Append(cmds,
                [Cmd("query", rc, None, None, None) EXCEPT
                    !.out = IF rc = 0 /\ hasLink THEN oracle.link ELSE None])
          /\ link' = IF rc = 0 THEN ParseLink(QueryOutput(oracle, hasLink))
                     ELSE link
    /\ pc' = "dispatch"
    /\ UNCHANGED <<bin_path, oracle, params, current_path, all_alternatives,
                   result, oracle0, prev>>

\* main(), lines 217-221
Dispatch ==
    /\ pc = "dispatch"
    /\ pc' = IF params.state = "present" THEN "set_alternative"
             ELSE "remove_alternative"
    /\ UNCHANGED <<bin_path, oracle, params, current_path, all_alternatives,
                   link, cmds, result, oracle0, prev>>

\* the else branch reports changed=True as well
SetAlternative_alwaysChanged ==
    /\ pc = "set_alternative"
    /\ IF current_path # params.path
       THEN IF params.check_mode
            THEN pc' = "done" /\ result' = ExitJson(TRUE)
            ELSE IF ~InList(params.path, all_alternatives)
                 THEN IF link = None
                      THEN pc' = "done" /\ result' = FailJson("missing_link")
                      ELSE pc' = "install" /\ UNCHANGED result
                 ELSE pc' = "set" /\ UNCHANGED result
       ELSE pc' = "done" /\ result' = ExitJson(TRUE)
    /\ UNCHANGED <<bin_path, oracle, params, current_path, all_alternatives,
                   link, cmds, oracle0, prev>>

\* the install step is forgotten: a path that is no candidate goes to --set
SetAlternative_noInstall ==
    /\ pc = "set_alternative"
    /\ IF current_path # params.path
       THEN IF params.check_mode
            THEN pc' = "done" /\ result' = ExitJson(TRUE)
            ELSE IF ~InList(params.path, all_alternatives) /\ link = None
                 THEN pc' = "done" /\ result' = FailJson("missing_link")
                 ELSE pc' = "set" /\ UNCHANGED result
       ELSE pc' = "done" /\ result' = ExitJson(FALSE)
    /\ UNCHANGED <<bin_path, oracle, params, current_path, all_alternatives,
                   link, cmds, oracle0, prev>>

\* set_alternative(), lines 152-160 and 177-178: the decisions taken before
\* any command runs.
SetAlternative ==
    /\ pc = "set_alternative"
    /\ IF current_path # params.path
       THEN IF params.check_mode
            THEN pc' = "done" /\ result' = ExitJson(TRUE)
            ELSE IF ~InList(params.path, all_alternatives)
                 THEN IF link = None
                      THEN pc' = "done" /\ result' = FailJson("missing_link")
                      ELSE pc' = "install" /\ UNCHANGED result
                 ELSE pc' = "set" /\ UNCHANGED result
       ELSE pc' = "done" /\ result' = ExitJson(FALSE)
    /\ UNCHANGED <<bin_path, oracle, params, current_path, all_alternatives,
                   link, cmds, oracle0, prev>>

\* a failed --install is tried once more
Install_retry ==
    /\ pc = "install"
    /\ \E ok \in BOOLEAN, switch \in BOOLEAN :
          /\ cmds' = Append(cmds, Cmd("install", IF ok THEN 0 ELSE 2,
                                      link, params.path, params.priority))
          /\ IF ok
             THEN /\ oracle' = OracleInstall(oracle, link, params.path, switch)
                  /\ pc' = "set"
                  /\ UNCHANGED result
             ELSE IF ~(\E i \in 1..Len(cmds) : cmds[i].op = "install")
                  THEN /\ pc' = "install"
                       /\ UNCHANGED <<result, oracle>>
                  ELSE /\ pc' = "done"
                       /\ result' = FailJson("command_failed")
                       /\ UNCHANGED oracle
    /\ UNCHANGED <<bin_path, params, current_path, all_alternatives, link,
                   oracle0, prev>>

\* --install run without check_rc: its exit status is ignored
Install_ignoreRc ==
    /\ pc = "install"
    /\ \E ok \in BOOLEAN, switch \in BOOLEAN :
          /\ cmds' = Append(cmds, Cmd("install", IF ok THEN 0 ELSE 2,
                                      link, params.path, params.priority))
          /\ oracle' = IF ok
                       THEN OracleInstall(oracle, link, params.path, switch)
                       ELSE oracle
          /\ pc' = "set"
          /\ UNCHANGED result
    /\ UNCHANGED <<bin_path, params, current_path, all_alternatives, link,
                   oracle0, prev>>

\* set_alternative(), lines 162-165: --install with check_rc=True
Install ==
    /\ pc = "install"
    /\ \E ok \in BOOLEAN, switch \in BOOLEAN :
          /\ cmds' = Append(cmds, Cmd("install", IF ok THEN 0 ELSE 2,
                                      link, params.path, params.priority))
          /\ IF ok
             THEN /\ oracle' = OracleInstall(oracle, link, params.path, switch)
                  /\ pc' = "set"
                  /\ UNCHANGED result
             ELSE /\ pc' = "done"
                  /\ result' = FailJson("command_failed")
                  /\ UNCHANGED oracle
    /\ UNCHANGED <<bin_path, params, current_path, all_alternatives, link,
                   oracle0, prev>>

\* --set run without check_rc: changed=True whatever its exit status
Set_ignoreRc ==
    /\ pc = "set"
    /\ \E ok \in {b \in BOOLEAN : b => params.path \in oracle.alts} :
          /\ cmds' = Append(cmds, Cmd("set", IF ok THEN 0 ELSE 2,
                                      None, params.path, None))
          /\ oracle' = IF ok THEN OracleSet(oracle, params.path) ELSE oracle
          /\ result' = ExitJson(TRUE)
    /\ pc' = "done"
    /\ UNCHANGED <<bin_path, params, current_path, all_alternatives, link,
                   oracle0, prev>>

\* a broad `except` catches the exit of exit_json: a successful --set is
\* reported as a failure
Set_failAfterSuccess ==
    /\ pc = "set"
    /\ \E ok \in {b \in BOOLEAN : b => params.path \in oracle.alts} :
          /\ cmds' = Append(cmds, Cmd("set", IF ok THEN 0 ELSE 2,
                                      None, params.path, None))
          /\ oracle' = IF ok THEN OracleSet(oracle, params.path) ELSE oracle
          /\ result' = FailJson("command_failed")
    /\ pc' = "done"
    /\ UNCHANGED <<bin_path, params, current_path, all_alternatives, link,
                   oracle0, prev>>

\* the priority is passed to --set as well
Set_withPriority ==
    /\ pc = "set"
    /\ \E ok \in {b \in BOOLEAN : b => params.path \in oracle.alts} :
          /\ cmds' = Append(cmds, Cmd("set", IF ok THEN 0 ELSE 2,
                                      None, params.path, params.priority))
          /\ IF ok
             THEN /\ oracle' = OracleSet(oracle, params.path)
                  /\ result' = ExitJson(TRUE)
             ELSE /\ result' = FailJson("command_failed")
                  /\ UNCHANGED oracle
    /\ pc' = "done"
    /\ UNCHANGED <<bin_path, params, current_path, all_alternatives, link,
                   oracle0, prev>>

\* set_alternative(), lines 168-173: --set with check_rc=True, then exit
Set ==
    /\ pc = "set"
    /\ \E ok \in {b \in BOOLEAN : b => params.path \in oracle.alts} :
          /\ cmds' = Append(cmds, Cmd("set", IF ok THEN 0 ELSE 2,
                                      None, params.path, None))
          /\ IF ok
             THEN /\ oracle' = OracleSet(oracle, params.path)
                  /\ result' = ExitJson(TRUE)
             ELSE /\ result' = FailJson("command_failed")
                  /\ UNCHANGED oracle
    /\ pc' = "done"
    /\ UNCHANGED <<bin_path, params, current_path, all_alternatives, link,
                   oracle0, prev>>

\* the membership test is dropped: --remove is always run
RemoveAlternative_always ==
    /\ pc = "remove_alternative"
    /\ pc' = "remove"
    /\ UNCHANGED <<bin_path, oracle, params, current_path, all_alternatives,
                   link, cmds, result, oracle0, prev>>

\* remove_alternative(), lines 182 and 189-190
RemoveAlternative ==
    /\ pc = "remove_alternative"
    /\ IF InList(params.path, all_alternatives)
       THEN pc' = "remove" /\ UNCHANGED result
       ELSE pc' = "done" /\ result' = ExitJson(FALSE)
    /\ UNCHANGED <<bin_path, oracle, params, current_path, all_alternatives,
                   link, cmds, oracle0, prev>>

\* a successful --remove is reported as changed=False
Remove_unchanged ==
    /\ pc = "remove"
    /\ \E ok \in {b \in BOOLEAN : b => params.path \in oracle.alts},
          fallback \in Paths :
          /\ ok /\ oracle.alts \ {params.path} # {}
                => fallback \in oracle.alts \ {params.path}
          /\ ~(ok /\ oracle.alts \ {params.path} # {}) => fallback = 1
          /\ cmds' = Append(cmds, Cmd("remove", IF ok THEN 0 ELSE 2,
                                      None, params.path, None))
          /\ IF ok
             THEN /\ oracle' = OracleRemove(oracle, params.path, fallback)
                  /\ result' = ExitJson(FALSE)
             ELSE /\ result' = FailJson("command_failed")
                  /\ UNCHANGED oracle
    /\ pc' = "done"
    /\ UNCHANGED <<bin_path, params, current_path, all_alternatives, link,
                   oracle0, prev>>

\* remove_alternative(), lines 183-188: --remove with check_rc=True
Remove ==
    /\ pc = "remove"
    /\ \E ok \in {b \in BOOLEAN : b => params.path \in oracle.alts},
          fallback \in Paths :
          /\ ok /\ oracle.alts \ {params.path} # {}
                => fallback \in oracle.alts \ {params.path}
          /\ ~(ok /\ oracle.alts \ {params.path} # {}) => fallback = 1
          /\ cmds' = Append(cmds, Cmd("remove", IF ok THEN 0 ELSE 2,
                                      None, params.path, None))
          /\ IF ok
             THEN /\ oracle' = OracleRemove(oracle, params.path, fallback)
                  /\ result' = ExitJson(TRUE)
             ELSE /\ result' = FailJson("command_failed")
                  /\ UNCHANGED oracle
    /\ pc' = "done"
    /\ UNCHANGED <<bin_path, params, current_path, all_alternatives, link,
                   oracle0, prev>>

Next ==
    \/ Main
    \/ GetCurrentDisplay
    \/ GetCurrentQuery
    \/ Dispatch
    \/ SetAlternative
    \/ Install
    \/ Set
    \/ RemoveAlternative
    \/ Remove

Spec == Init /\ [][Next]_vars

\* ------------------------------------------- vocabulary of the properties
DryRun == params.check_mode
Finished == pc = "done"

\* the probe ran to its end: --display was issued and its report was parsed
ProbeCompleted == Len(cmds) >= 1 /\ result.kind # "exception"
DisplayFailed == Len(cmds) >= 1 /\ cmds[1].op = "display" /\ cmds[1].rc # 0

Issued(op) == \E i \in 1..Len(cmds) : cmds[i].op = op
NoCommandFailed == \A i \in 1..Len(cmds) : IsMutating(cmds[i]) => cmds[i].rc = 0

\* the plan of the design (NoOp, Install&Select, SelectOnly, Remove, Fail)
\* that corresponds to the snapshot the module holds after get_current
Plan ==
    IF params.state = "present"
    THEN IF current_path = params.path THEN "NoOp"
         ELSE IF ~InList(params.path, all_alternatives)
              THEN (IF link = None THEN "Fail" ELSE "InstallSelect")
              ELSE "SelectOnly"
    ELSE IF InList(params.path, all_alternatives) THEN "Remove" ELSE "NoOp"

MutatingPlans == {"InstallSelect", "SelectOnly", "Remove"}

InstallCmd == Cmd("install", 0, link, params.path, params.priority)
SetCmd == Cmd("set", 0, None, params.path, None)
RemoveCmd == Cmd("remove", 0, None, params.path, None)

\* ------------------------------------ two runs that differ in the priority
\* what is kept of the first run for the comparison
TwinSummary ==
    [valid |-> TRUE, state |-> params.state, path |-> params.path,
     check_mode |-> params.check_mode, result |-> result,
     priority |-> params.priority, cmds |-> cmds, link |-> link,
     plan |-> Plan]

\* the first invocation of a behaviour
MainFirst == pc = "main" /\ Main

\* main(), lines 192-215, run once more from the database the first run
\* started from, with the same parameters but another priority
MainTwin ==
    /\ pc = "done" /\ ~prev.valid
    /\ \E prio \in Priorities \ {params.priority} :
          params' = [params EXCEPT !.priority = prio]
    /\ prev' = TwinSummary
    /\ oracle' = oracle0
    /\ current_path' = None
    /\ all_alternatives' = <<>>
    /\ link' = params.link
    /\ cmds' = <<>>
    /\ IF bin_path
       THEN pc' = "display" /\ result' = Pending
       ELSE pc' = "done" /\ result' = FailJson("bin_not_found")
    /\ UNCHANGED <<bin_path, oracle0>>

NextTwin ==
    \/ MainFirst
    \/ MainTwin
    \/ GetCurrentDisplay
    \/ GetCurrentQuery
    \/ Dispatch
    \/ SetAlternative
    \/ Install
    \/ Set
    \/ RemoveAlternative
    \/ Remove

SpecTwin == Init /\ [][NextTwin]_vars

\* ------------------------------------------- one invocation, run to its end
\* the module is one sequential process: every step that can be taken is
\* taken, and nothing follows exit_json, fail_json or the traceback
NextRun ==
    \/ MainFirst
    \/ GetCurrentDisplay
    \/ GetCurrentQuery
    \/ Dispatch
    \/ SetAlternative
    \/ Install
    \/ Set
    \/ RemoveAlternative
    \/ Remove

SpecRun == Init /\ [][NextRun]_vars /\ WF_vars(NextRun)

\* ---------------------------------------------------------------- claims

\* C1: an invocation in check mode issues no install, set or remove, so the
\* database after it equals the database before it.
C1_DryRunNonMutation ==
    DryRun => (MutCmds(cmds) = <<>> /\ oracle = oracle0)

C3_MissingLinkFatal ==
    ( /\ Finished /\ params.state = "present" /\ params.link = None
      /\ DisplayFailed )
    => (result = FailJson("missing_link") /\ MutCmds(cmds) = <<>>)

\* C4: `absent` for a path that is not among the probed candidates reports
\* changed=false without error and issues no mutating command, in check
\* mode and in real mode.
C4_VacuousRemoval ==
    ( /\ Finished /\ params.state = "absent" /\ ProbeCompleted
      /\ (~InList(params.path, all_alternatives)
          \/ params.path \notin oracle0.alts) )
    => ( /\ result = ExitJson(FALSE)
         /\ MutCmds(cmds) = <<>>
         /\ oracle = oracle0 )

C4_Witness ==
    /\ Finished /\ params.state = "absent" /\ DryRun
    /\ oracle0.alts # {} /\ params.path \notin oracle0.alts
    /\ result = ExitJson(FALSE)

\* C5: in check mode changed=true is reported exactly for the mutating plans
\* and changed=false exactly for NoOp; NoOp reports changed=false in both
\* modes.
C5_DryRunReporting ==
    (Finished /\ ProbeCompleted) =>
        /\ DryRun => /\ result = ExitJson(TRUE) <=> Plan \in MutatingPlans
                     /\ result = ExitJson(FALSE) <=> Plan = "NoOp"
        /\ Plan = "NoOp" => result = ExitJson(FALSE)

\* C6: `present` ends as NoOp iff the selected path is the desired one, as
\* Fail(missing link) iff the path is no candidate and there is no link,
\* and in real runs starts with install iff the path is no candidate and
\* there is a link, and with set (and no install) iff the path is a
\* candidate that is not selected.
C6_PresentPlanSelection ==
    (Finished /\ params.state = "present" /\ ProbeCompleted) =>
        /\ (result = ExitJson(FALSE) /\ MutCmds(cmds) = <<>>) <=> Plan = "NoOp"
        /\ result = FailJson("missing_link") <=> Plan = "Fail"
        /\ ~DryRun => /\ Issued("install") <=> Plan = "InstallSelect"
                      /\ (Issued("set") /\ ~Issued("install"))
                             <=> Plan = "SelectOnly"

\* C7: in a real invocation a failing install, set or remove is the last
\* command issued and ends the invocation with a failure; changed=true is
\* reported only after every command of the plan was issued and succeeded.
C7_AbortOnFirstFailure ==
    ~DryRun =>
        /\ \A i \in 1..Len(cmds) :
              (IsMutating(cmds[i]) /\ cmds[i].rc # 0)
              => (i = Len(cmds) /\ Finished /\ result = FailJson("command_failed"))
        /\ (Finished /\ result = ExitJson(TRUE)) =>
              MutCmds(cmds) = (CASE Plan = "InstallSelect" -> <<InstallCmd, SetCmd>>
                                 [] Plan = "SelectOnly" -> <<SetCmd>>
                                 [] Plan = "Remove" -> <<RemoveCmd>>
                                 [] OTHER -> <<>>)

C7_Witness ==
    /\ ~DryRun /\ Finished /\ result = FailJson("command_failed")
    /\ Len(MutCmds(cmds)) = 2
    /\ MutCmds(cmds)[1].rc = 0 /\ MutCmds(cmds)[2].rc # 0

\* C8: in a real invocation a set is issued only for a path that was probed
\* as a candidate or that an earlier, successful install of this invocation
\* registered with the invocation's link, name, path and priority; with the
\* Install&Select plan the install precedes the set.
C8_InstallBeforeSet ==
    ~DryRun =>
        \A i \in 1..Len(cmds) :
            cmds[i].op = "set" =>
                /\ cmds[i].path = params.path
                /\ \/ InList(cmds[i].path, all_alternatives)
                   \/ \E j \in 1..(i - 1) : cmds[j] = InstallCmd
                /\ Plan = "InstallSelect" =>
                      (i > 1 /\ cmds[i - 1] = InstallCmd)

C8_Witness ==
    /\ ~DryRun /\ Finished /\ Plan = "InstallSelect"
    /\ MutCmds(cmds) = <<InstallCmd, SetCmd>>
    /\ oracle0.alts # {}

\* C9: a real `absent` for a probed candidate issues exactly one mutating
\* command, remove of that path; when it succeeds changed=true is reported
\* and the path is no candidate any more, and the same `absent` run right
\* after reports changed=false.
C9_AbsentRemoval ==
    /\ ( /\ Finished /\ params.state = "absent" /\ ~DryRun /\ ProbeCompleted
         /\ InList(params.path, all_alternatives) )
       => /\ Len(MutCmds(cmds)) = 1
          /\ MutCmds(cmds)[1] = [RemoveCmd EXCEPT !.rc = MutCmds(cmds)[1].rc]
          /\ NoCommandFailed =>
                (result = ExitJson(TRUE) /\ params.path \notin oracle.alts)
    /\ ( /\ Finished /\ params.state = "absent"
         /\ prev.valid /\ prev.state = "absent"
         /\ ~prev.check_mode
         /\ prev.path = params.path
         /\ prev.result = ExitJson(TRUE) )
       => (result = ExitJson(FALSE) /\ MutCmds(cmds) = <<>>)

C9_Witness ==
    /\ Finished /\ params.state = "absent"
    /\ prev.valid /\ prev.state = "absent" /\ ~prev.check_mode
    /\ prev.path = params.path /\ prev.result = ExitJson(TRUE)
    /\ result = ExitJson(FALSE)
    /\ oracle.alts # {}

\* C10: when --display exits non-zero the probe yields no current path and
\* no candidates and the invocation goes on to planning: `present` with a
\* link installs, `absent` is a no-op, and a failure can only come from a
\* missing link or from a failing mutating command.
C10_UnregisteredNotAnError ==
    DisplayFailed =>
        /\ current_path = None /\ all_alternatives = <<>>
        /\ ~Issued("query")
        /\ pc \notin {"main", "display", "query"}
        /\ Finished =>
            /\ (params.state = "present" /\ params.link # None) =>
                  /\ Plan = "InstallSelect"
                  /\ DryRun => result = ExitJson(TRUE)
                  /\ ~DryRun => (Len(cmds) >= 2 /\ cmds[2].op = "install"
                                 /\ cmds[2].link = params.link)
            /\ params.state = "absent" =>
                  (Plan = "NoOp" /\ result = ExitJson(FALSE) /\ MutCmds(cmds) = <<>>)
            /\ result.kind # "exit" =>
                  \/ (result = FailJson("missing_link") /\ params.link = None)
                  \/ (result = FailJson("command_failed") /\ ~NoCommandFailed)

C10_Witness ==
    /\ DisplayFailed /\ Finished /\ ~DryRun
    /\ params.state = "present" /\ params.link # None
    /\ result = ExitJson(TRUE)
    /\ MutCmds(cmds) = <<InstallCmd, SetCmd>>

\* --display exited 0 and its report has no "link currently points to" line
DisplayUnparsable ==
    /\ Len(cmds) >= 1 /\ cmds[1].op = "display" /\ cmds[1].rc = 0
    /\ SearchKind(DisplayOutput(oracle0), "current", 1) = 0

\* C11: when --display succeeds without a "link currently points to" line
\* the invocation ends at once with the parse failure: no current path is
\* made up, no candidates are read, nothing is planned and no further
\* command (query, install, set, remove) is issued.
C11_ParseErrorFatal ==
    DisplayUnparsable =>
        /\ Finished
        /\ result = Traceback("parse_error")
        /\ current_path = None /\ all_alternatives = <<>>
        /\ Len(cmds) = 1
        /\ oracle = oracle0

C11_Witness ==
    /\ DisplayUnparsable /\ Finished
    /\ result = Traceback("parse_error")
    /\ params.state = "present" /\ ~DryRun /\ params.link # None

\* the oracle answered the commands both runs issued in the same way
SameResponses ==
    \A i \in 1..Len(cmds) :
        (i <= Len(prev.cmds) /\ prev.cmds[i].op = cmds[i].op)
        => (prev.cmds[i].rc = cmds[i].rc /\ prev.cmds[i].out = cmds[i].out)

\* a command sequence without the priority argument of its installs
ErasePriority(s) ==
    [i \in 1..Len(s) |->
        IF s[i].op = "install" THEN [s[i] EXCEPT !.priority = None] ELSE s[i]]

\* C12: two invocations from the same database that differ only in the
\* priority and get the same answers from the oracle have the same plan,
\* the same outcome and the same commands, but for the priority argument
\* of install, which is each run's own priority; no other command carries
\* a priority.
C12_PriorityOnlyInInstall ==
    (Finished /\ prev.valid /\ SameResponses) =>
        /\ Plan = prev.plan
        /\ result = prev.result
        /\ ErasePriority(cmds) = ErasePriority(prev.cmds)
        /\ \A i \in 1..Len(cmds) :
              /\ cmds[i].priority =
                    (IF cmds[i].op = "install" THEN params.priority ELSE None)
              /\ prev.cmds[i].priority =
                    (IF cmds[i].op = "install" THEN prev.priority ELSE None)

C12_Witness ==
    /\ Finished /\ prev.valid /\ SameResponses
    /\ prev.priority # params.priority
    /\ Plan = "InstallSelect" /\ result = ExitJson(TRUE)
    /\ MutCmds(cmds) = <<InstallCmd, SetCmd>>
    /\ cmds # prev.cmds

\* --query was issued and either failed or named no link
QueryUnresolved ==
    \E i \in 1..Len(cmds) :
        cmds[i].op = "query" /\ (cmds[i].rc # 0 \/ cmds[i].out = None)

\* C13: when --query fails or its report has no Link: line, the link stays
\* absent and the invocation goes on: plans that need no install (NoOp,
\* SelectOnly, Remove) succeed when their commands do, and the missing-link
\* failure is reported only when the path has to be installed.
C13_QueryFailureNonFatal ==
    QueryUnresolved =>
        /\ params.link = None /\ link = None
        /\ pc \notin {"main", "display", "query"}
        /\ Finished =>
            /\ (Plan \in {"NoOp", "SelectOnly", "Remove"} /\ NoCommandFailed)
                  => result = ExitJson(Plan # "NoOp")
            /\ result = FailJson("missing_link") =>
                  /\ params.state = "present"
                  /\ current_path # params.path
                  /\ ~InList(params.path, all_alternatives)
            /\ result.kind # "exit" =>
                  \/ result = FailJson("missing_link")
                  \/ (result = FailJson("command_failed") /\ ~NoCommandFailed)

C13_Witness ==
    /\ QueryUnresolved /\ Finished /\ ~DryRun
    /\ cmds[2].op = "query" /\ cmds[2].rc # 0
    /\ Plan = "SelectOnly" /\ result = ExitJson(TRUE)

DisplaySucceeded ==
    Len(cmds) >= 1 /\ cmds[1].op = "display" /\ cmds[1].rc = 0

\* --query comes second, right after a successful --display, and every
\* install, set or remove comes after both
QueryOrdering ==
    /\ \A i \in 1..Len(cmds) :
          cmds[i].op = "query" => (i = 2 /\ DisplaySucceeded /\ params.link = None)
    /\ \A i \in 1..Len(cmds) :
          IsMutating(cmds[i]) =>
              /\ i > 1 /\ cmds[1].op = "display"
              /\ Issued("query") => i > 2

\* C14 as stated: --query is issued iff no link was supplied and --display
\* succeeded, never for an unregistered group or with a supplied link, and
\* always after --display and before any mutating command.
C14_QueryIffNoLinkAndDisplayOk ==
    /\ QueryOrdering
    /\ Finished => (Issued("query") <=> (params.link = None /\ DisplaySucceeded))

\* C14 amended: --query is issued iff no link was supplied, --display
\* succeeded and its report had the "link currently points to" line; never
\* for an unregistered group or with a supplied link, and always after
\* --display and before any mutating command.
C14_QueryIffNoLinkAndProbeOk ==
    /\ QueryOrdering
    /\ pc \notin {"main", "display", "query"} =>
          (Issued("query") <=>
              (params.link = None /\ DisplaySucceeded /\ ~DisplayUnparsable))

C14_Witness ==
    /\ Finished /\ params.link = None /\ DisplaySucceeded
    /\ Len(cmds) = 4
    /\ cmds[2].op = "query" /\ cmds[3].op = "install" /\ cmds[4].op = "set"

\* a real invocation ended with a failure and left the database changed
FailedButMutated ==
    Finished /\ ~DryRun /\ result.kind # "exit" /\ oracle # oracle0

\* the install of the plan succeeded and its set failed
InstallThenFailedSet ==
    /\ Plan = "InstallSelect"
    /\ MutCmds(cmds) = <<InstallCmd, [SetCmd EXCEPT !.rc = 2]>>
    /\ result = FailJson("command_failed")

\* C15 as stated: a failing real invocation that changed the database ran
\* Install&Select with a successful install and a failing set, and the only
\* change is the desired path added to the candidates; every other failing
\* invocation leaves the database as it was.
C15_OnlyCandidateAdded ==
    FailedButMutated =>
        /\ InstallThenFailedSet
        /\ params.path \notin oracle0.alts
        /\ oracle = [oracle0 EXCEPT !.alts = @ \cup {params.path}]

\* C15 amended: a failing real invocation that changed the database ran
\* Install&Select with a successful install and a failing set, and the
\* change is the effect of that install: the desired path added to the
\* candidates, the group's link set to the installed link, and the current
\* selection either kept or, for a new group or one in automatic mode,
\* moved to the desired path; every other failing invocation leaves the
\* database as it was.
C15_OnlyInstallEffect ==
    FailedButMutated =>
        /\ InstallThenFailedSet
        /\ params.path \notin oracle0.alts
        /\ oracle.alts = oracle0.alts \cup {params.path}
        /\ oracle.link = link
        /\ \/ oracle.current = params.path
           \/ (oracle0.alts # {} /\ oracle.current = oracle0.current)

C15_Witness ==
    /\ FailedButMutated /\ InstallThenFailedSet
    /\ oracle0.alts # {}
    /\ oracle.current = oracle0.current /\ oracle.link = oracle0.link

CountOf(op) == Cardinality({i \in 1..Len(cmds) : cmds[i].op = op})

\* at most one of each command, at most two mutating ones, display first
CommandBudget ==
    /\ \A op \in {"display", "query", "install", "set", "remove"} :
          CountOf(op) <= 1
    /\ Len(MutCmds(cmds)) <= 2
    /\ \A i \in 1..Len(cmds) :
          cmds[i].op \in {"display", "query", "install", "set", "remove"}

\* the outcome is there exactly when the invocation has ended
OneOutcome ==
    /\ Finished <=> result.kind \in {"exit", "fail", "exception"}
    /\ ~Finished => result = Pending

\* C16: every invocation ends, with one outcome (success, failure, or the
\* changed=true of a dry run) that is never replaced, after at most one
\* display, one query, one install, one set and one remove, two mutating
\* commands at most; so no command is issued again after it failed.
C16_TerminatesWithoutRetries ==
    /\ <>Finished
    /\ [](CommandBudget /\ OneOutcome)
    /\ [][Finished => (Finished' /\ result' = result /\ cmds' = cmds)]_vars

C16_Witness ==
    /\ Finished /\ Len(cmds) = 4
    /\ result = FailJson("command_failed")
    /\ cmds[3].op = "install" /\ cmds[3].rc = 0
    /\ cmds[4].op = "set" /\ cmds[4].rc # 0

\* C17: after a real `present` that ends with success, changed or not, the
\* desired path is the group's current selection and one of its candidates.
C17_PresentConverges ==
    (Finished /\ params.state = "present" /\ ~DryRun /\ result.kind = "exit")
    => (oracle.current = params.path /\ params.path \in oracle.alts)

C17_Witness ==
    /\ Finished /\ params.state = "present" /\ ~DryRun
    /\ result = ExitJson(TRUE)
    /\ oracle0.alts # {} /\ oracle0.current # params.path
    /\ params.path \notin oracle0.alts
    /\ oracle.current = params.path

\* C18: an invocation that reports changed=false issued no install, set or
\* remove and left the database as it was; a real invocation that reports
\* changed=true issued at least one mutating command that succeeded.
C18_ChangedFlagSound ==
    /\ (Finished /\ result = ExitJson(FALSE))
          => (MutCmds(cmds) = <<>> /\ oracle = oracle0)
    /\ (Finished /\ ~DryRun /\ result = ExitJson(TRUE))
          => \E i \in 1..Len(cmds) : IsMutating(cmds[i]) /\ cmds[i].rc = 0

C18_Witness ==
    /\ Finished /\ ~DryRun /\ params.state = "absent"
    /\ result = ExitJson(TRUE)
    /\ MutCmds(cmds) = <<RemoveCmd>>
    /\ oracle # oracle0

\* ------------------------------------------------------------ type check
TypeOK ==
    /\ bin_path \in BOOLEAN
    /\ OracleOk(oracle)
    /\ OracleOk(oracle0)
    /\ pc \in {"main", "display", "query", "dispatch", "set_alternative",
               "install", "set", "remove_alternative", "remove", "done"}
    /\ current_path \in Paths \cup {None}
    /\ link \in Links \cup {None}
    /\ Len(cmds) <= 4

====
